---- MODULE Spec2Model ----
(***************************************************************************)
(* Chainbills: the accounting engine of a cross-chain payments ledger.     *)
(* Hosts create payables, payers pay them in a token and an amount, hosts  *)
(* withdraw the accumulated balances (less a 2% fee), locally or through   *)
(* an attested message from a remote chain.                                *)
(*                                                                         *)
(* Every handler is one operator that maps the current ledger and the      *)
(* handler's inputs to its outcome: the error it returns ("Ok" on success) *)
(* and the ledger it leaves behind.  A handler that returns an error or    *)
(* panics aborts its transaction, so the ledger it leaves is the ledger it *)
(* found.  Each action applies one handler to inputs drawn from small      *)
(* sets.                                                                   *)
(***************************************************************************)
EXTENDS Integers, Sequences, FiniteSets, TLC

(***************************************************************************)
(* Bounds of the model.                                                    *)
(***************************************************************************)
\* Payables ever created (chain-wide).
MaxPayables == 2
\* Successful payments (chain-wide).
MaxPayments == 2
\* Successful withdrawals (chain-wide).
MaxWithdrawals == 1
\* Amounts offered to pay and withdraw are 0..MaxAmount.
MaxAmount == 2
\* The largest value of the unsigned integer types of the ledger (u64 and
\* Uint128 in the source), scaled to 16 bits so that TLC can compute with it.
U64_MAX == 65535

(***************************************************************************)
(* Input domains.                                                          *)
(***************************************************************************)
LocalChain == "local"
RemoteChain == "remote"

\* Wallets of this chain, and wallets of the remote chain (32-byte form).
LocalWallets == {"w1", "w2"}
RemoteWallets == {"r1"}
ZeroAddress == "zero"
Wallets == LocalWallets \cup RemoteWallets

\* The chain a user account belongs to (User.chain_id).
ChainOf(w) == IF w \in RemoteWallets THEN RemoteChain ELSE LocalChain

\* tA is the contract's own address (native token), tB a CW20 / SPL token,
\* tX a token nobody registered.
NativeToken == "tA"
SupportedTokens == {"tA", "tB"}
Tokens == SupportedTokens \cup {"tX"}

Amounts == 0 .. MaxAmount

\* Amounts offered to withdraw: those of a payment and one more.
WithdrawAmounts == 0 .. MaxAmount + 1

TAA(t, a) == [token |-> t, amount |-> a]

(***************************************************************************)
(* Checked arithmetic: None stands for the None of checked_add,            *)
(* checked_sub, checked_mul and checked_div; unwrap() of it panics.        *)
(***************************************************************************)
None == -1

\* Mutant of checked_add: the sum wraps around the width.
checked_add_wrapping(a, b) == (a + b) % (U64_MAX + 1)

checked_add(a, b) == IF a > U64_MAX - b THEN None ELSE a + b

checked_sub(a, b) == IF a < b THEN None ELSE a - b

checked_mul(a, b) == IF b # 0 /\ a > U64_MAX \div b THEN None ELSE a * b

checked_div(a, b) == IF b = 0 THEN None ELSE a \div b

\* The next value of a sequence counter (next_payment, next_payable,
\* next_withdrawal, next_activity): the counter plus one, checked.
next_count(count) == checked_add(count, 1)

(***************************************************************************)
(* The ledger.                                                             *)
(***************************************************************************)
VARIABLES
  chain_stats,                  \* ChainStats / GlobalStats: the chain-wide counters
  users,                        \* wallet -> User counters
  payables,                     \* payable id -> Payable
  payable_chain_payments_count, \* payable id -> payments from the local chain
  user_payment_ids,             \* wallet -> payment ids, in payment order
  payable_payment_ids,          \* payable id -> payment ids, in payment order
  user_payments,                \* payment id -> UserPayment
  payable_payments,             \* payment id -> PayablePayment
  withdrawals,                  \* withdrawal id -> Withdrawal
  wormhole_received,            \* attested messages already applied
  custody                       \* token -> tokens held by the program

vars == <<chain_stats, users, payables, payable_chain_payments_count,
          user_payment_ids, payable_payment_ids, user_payments,
          payable_payments, withdrawals, wormhole_received, custody>>

\* The ledger as one value, as a handler sees it.
Ledger ==
  [chain_stats |-> chain_stats, users |-> users, payables |-> payables,
   payable_chain_payments_count |-> payable_chain_payments_count,
   user_payment_ids |-> user_payment_ids,
   payable_payment_ids |-> payable_payment_ids,
   user_payments |-> user_payments, payable_payments |-> payable_payments,
   withdrawals |-> withdrawals, wormhole_received |-> wormhole_received,
   custody |-> custody]

\* GlobalStats::initialize and User::initialize: every counter starts at 0.
InitChainStats ==
  [payables_count |-> 0, payments_count |-> 0, withdrawals_count |-> 0,
   activities_count |-> 0]

InitUser ==
  [payables_count |-> 0, payments_count |-> 0, withdrawals_count |-> 0,
   activities_count |-> 0]

Init ==
  /\ chain_stats = InitChainStats
  /\ users = [w \in Wallets |-> InitUser]
  /\ payables = << >>
  /\ payable_chain_payments_count = << >>
  /\ user_payment_ids = [w \in Wallets |-> << >>]
  /\ payable_payment_ids = << >>
  /\ user_payments = << >>
  /\ payable_payments = << >>
  /\ withdrawals = << >>
  /\ wormhole_received = {}
  /\ custody = [t \in Tokens |-> 0]

\* A handler's result: the error and the ledger left behind.
Failed(L, err) == [err |-> err, net |-> 0, ledger |-> L]

Done(L, net) == [err |-> "Ok", net |-> net, ledger |-> L]

\* The transaction of a handler call: it commits the ledger the handler
\* left when the handler returned Ok; a call that fails aborts and leaves
\* the state as it was.
Transaction(r) ==
  IF r.err = "Ok"
  THEN /\ chain_stats' = r.ledger.chain_stats
       /\ users' = r.ledger.users
       /\ payables' = r.ledger.payables
       /\ payable_chain_payments_count' = r.ledger.payable_chain_payments_count
       /\ user_payment_ids' = r.ledger.user_payment_ids
       /\ payable_payment_ids' = r.ledger.payable_payment_ids
       /\ user_payments' = r.ledger.user_payments
       /\ payable_payments' = r.ledger.payable_payments
       /\ withdrawals' = r.ledger.withdrawals
       /\ wormhole_received' = r.ledger.wormhole_received
       /\ custody' = r.ledger.custody
  ELSE UNCHANGED vars

\* may_load(..).unwrap_or_default(): the value stored at k, or the default.
may_load(f, k, default) == IF k \in DOMAIN f THEN f[k] ELSE default

\* f with key k set to v (a storage save / an account write).
Put(f, k, v) == [x \in DOMAIN f \cup {k} |-> IF x = k THEN v ELSE f[x]]

\* Index of the first entry of a token/amount list with this token, 0 if none.
RECURSIVE FirstIndexFrom(_, _, _)
FirstIndexFrom(list, token, i) ==
  IF i > Len(list) THEN 0
  ELSE IF list[i].token = token THEN i
  ELSE FirstIndexFrom(list, token, i + 1)

FirstIndex(list, token) == FirstIndexFrom(list, token, 1)

(***************************************************************************)
(* Payable Registry: create_payable (Solana).                              *)
(***************************************************************************)
\* A remaining account that holds the TokenDetails of token t.
TokenDetailsOf(t) ==
  [kind |-> "TokenDetails", mint |-> t, is_supported |-> t \in SupportedTokens]

\* A remaining account that is no TokenDetails account.
OtherAccount == [kind |-> "Other", mint |-> "none", is_supported |-> FALSE]

\* Mutant of create_payable_checks: the amounts are not checked.
RECURSIVE create_payable_checks_any_amount(_, _, _)
create_payable_checks_any_amount(allowed_tokens_and_amounts, remaining_accounts, i) ==
  IF i > Len(allowed_tokens_and_amounts) THEN "Ok"
  ELSE LET taa == allowed_tokens_and_amounts[i]
           token_details == remaining_accounts[i]
       IN IF token_details.kind # "TokenDetails"
            THEN "NonTokenDetailsAccountProvided"
          ELSE IF taa.token # token_details.mint
            THEN "InvalidTokenDetailsAccount"
          ELSE IF ~token_details.is_supported THEN "UnsupportedToken"
          ELSE create_payable_checks_any_amount(allowed_tokens_and_amounts,
                                                remaining_accounts, i + 1)

\* The checks of create_payable_handler on entries i.. of the list, in the
\* order of the loop body; "Ok" when every entry passes.
RECURSIVE create_payable_checks(_, _, _)
create_payable_checks(allowed_tokens_and_amounts, remaining_accounts, i) ==
  IF i > Len(allowed_tokens_and_amounts) THEN "Ok"
  ELSE LET taa == allowed_tokens_and_amounts[i]
           token_details == remaining_accounts[i]
       IN IF token_details.kind # "TokenDetails"
            THEN "NonTokenDetailsAccountProvided"
          ELSE IF taa.token # token_details.mint
            THEN "InvalidTokenDetailsAccount"
          ELSE IF ~token_details.is_supported THEN "UnsupportedToken"
          ELSE IF ~(taa.amount > 0) THEN "ZeroAmountSpecified"
          ELSE create_payable_checks(allowed_tokens_and_amounts,
                                     remaining_accounts, i + 1)

\* The state changes of create_payable_handler for host `signer`.
create_payable_commit(L, signer, allowed_tokens_and_amounts) ==
  LET payables_count == next_count(L.chain_stats.payables_count)
      chain_activities == next_count(L.chain_stats.activities_count)
      host == L.users[signer]
      host_payables == next_count(host.payables_count)
      host_activities == next_count(host.activities_count)
      payable_id == <<signer, host_payables>>
      payable ==
        [chain_count |-> payables_count,
         host |-> signer,
         host_count |-> host_payables,
         allowed_tokens_and_amounts |-> allowed_tokens_and_amounts,
         balances |-> << >>,
         payments_count |-> 0,
         withdrawals_count |-> 0,
         activities_count |-> 1,
         is_closed |-> FALSE]
  IN IF None \in {payables_count, chain_activities, host_payables,
                  host_activities}
     THEN Failed(L, "Panic")
     ELSE Done(
       [L EXCEPT
          !.chain_stats = [@ EXCEPT !.payables_count = payables_count,
                                    !.activities_count = chain_activities],
          !.users = [@ EXCEPT ![signer] =
                       [@ EXCEPT !.payables_count = host_payables,
                                 !.activities_count = host_activities]],
          !.payables = Put(@, payable_id, payable),
          !.payable_chain_payments_count = Put(@, payable_id, 0),
          !.payable_payment_ids = Put(@, payable_id, << >>)],
       0)

create_payable_handler(L, signer, allowed_tokens_and_amounts, remaining_accounts) ==
  IF Len(remaining_accounts) # Len(allowed_tokens_and_amounts)
  THEN Failed(L, "InvalidRemainingAccountsLength")
  ELSE LET err == create_payable_checks(allowed_tokens_and_amounts,
                                        remaining_accounts, 1)
       IN IF err # "Ok" THEN Failed(L, err)
          ELSE create_payable_commit(L, signer, allowed_tokens_and_amounts)

(***************************************************************************)
(* Payable Registry: initialize_payable (Solana).                          *)
(***************************************************************************)
\* The limits of crate::constants, scaled: the most tokens and amounts a
\* payable can specify, and the longest description.
MAX_PAYABLES_TOKENS == 2

MAX_PAYABLES_DESCRIPTION_LENGTH == 3

\* A description is a sequence of characters.  trim_start, trim_end and trim
\* remove the whitespace at its ends.
RECURSIVE trim_start(_)
trim_start(description) ==
  IF description # << >> /\ Head(description) = " "
  THEN trim_start(Tail(description))
  ELSE description

RECURSIVE trim_end(_)
trim_end(description) ==
  IF description # << >> /\ description[Len(description)] = " "
  THEN trim_end(SubSeq(description, 1, Len(description) - 1))
  ELSE description

trim(description) == trim_end(trim_start(description))

\* The checks of initialize_payable_handler, in order.
initialize_payable_checks(description, tokens_and_amounts, allows_free_payments) ==
  IF ~(trim(description) # << >>) THEN "EmptyDescriptionProvided"
  ELSE IF ~(Len(description) <= MAX_PAYABLES_DESCRIPTION_LENGTH)
    THEN "MaxPayableDescriptionReached"
  ELSE IF ~(Len(tokens_and_amounts) <= MAX_PAYABLES_TOKENS)
    THEN "MaxPayableTokensCapacityReached"
  ELSE IF ~(\/ allows_free_payments /\ Len(tokens_and_amounts) = 0
            \/ ~allows_free_payments /\ Len(tokens_and_amounts) > 0)
    THEN "ImproperPayablesConfiguration"
  ELSE IF \E i \in 1 .. Len(tokens_and_amounts) :
            ~(tokens_and_amounts[i].amount > 0)
    THEN "ZeroAmountSpecified"
  ELSE "Ok"

\* The key of a wallet's User account, the account of seeds
\* [signer.key()] that InitializePayable and Withdraw name `host`.
user_account(wallet) ==
  CASE wallet = "w1" -> "user_w1"
    [] wallet = "w2" -> "user_w2"
    [] wallet = "r1" -> "user_r1"

\* The state updates of initialize_payable_handler.  The payable's
\* global_count and tokens_and_amounts are held in the fields chain_count
\* and allowed_tokens_and_amounts, the names the other handlers read.  Its
\* host is written as host.key(), the key of the signer's User account.
initialize_payable_updates(L, signer, description, tokens_and_amounts, allows_free_payments) ==
  LET payables_count == checked_add(L.chain_stats.payables_count, 1)
      host_payables == checked_add(L.users[signer].payables_count, 1)
      payable_id == <<signer, host_payables>>
      payable ==
        [chain_count |-> payables_count,
         host |-> user_account(signer),
         host_count |-> host_payables,
         description |-> trim(description),
         allowed_tokens_and_amounts |-> tokens_and_amounts,
         balances |-> << >>,
         allows_free_payments |-> allows_free_payments,
         payments_count |-> 0,
         withdrawals_count |-> 0,
         is_closed |-> FALSE]
  IN IF None \in {payables_count, host_payables} THEN Failed(L, "Panic")
     ELSE Done(
       [L EXCEPT
          !.chain_stats.payables_count = payables_count,
          !.users[signer].payables_count = host_payables,
          !.payables = Put(@, payable_id, payable)],
       0)

initialize_payable_handler(L, signer, description, tokens_and_amounts, allows_free_payments) ==
  LET err == initialize_payable_checks(description, tokens_and_amounts,
                                       allows_free_payments)
  IN IF err # "Ok" THEN Failed(L, err)
     ELSE initialize_payable_updates(L, signer, description,
                                     tokens_and_amounts, allows_free_payments)

\* A payable of a host on the remote chain, created from an attested
\* message (initialize_payable_received): the same state changes.
initialize_payable_received_handler(L, caller, allowed_tokens_and_amounts) ==
  IF ~(Len(allowed_tokens_and_amounts) <= MAX_PAYABLES_TOKENS)
  THEN Failed(L, "MaxPayableTokensCapacityReached")
  ELSE IF \E i \in 1 .. Len(allowed_tokens_and_amounts) :
            ~(allowed_tokens_and_amounts[i].amount > 0)
  THEN Failed(L, "ZeroAmountSpecified")
  ELSE create_payable_commit(L, caller, allowed_tokens_and_amounts)

(***************************************************************************)
(* Payable Registry: close and reopen (UpdatePayable).                     *)
(***************************************************************************)
\* Mutant of is_host: the constraint on the signer is missing.
is_host_anyone(L, payable_id, signer) == TRUE

\* The account constraint of UpdatePayable, of
\* UpdatePayableAllowedTokensAndAmounts and of Withdraw:
\* payable.host == *signer.key.
is_host(L, payable_id, signer) == L.payables[payable_id].host = signer

update_payable_handler(L, payable_id, signer, is_closed) ==
  IF payable_id \notin DOMAIN L.payables
  THEN Failed(L, "AccountNotInitialized")
  ELSE IF ~is_host(L, payable_id, signer) THEN Failed(L, "NotYourPayable")
  ELSE Done([L EXCEPT !.payables[payable_id].is_closed = is_closed], 0)

\* The update of a payable's allowed tokens and amounts: host-only, it
\* replaces the allowed list and leaves the balances alone.
update_payable_allowed_tokens_and_amounts_handler(L, payable_id, signer, allowed_tokens_and_amounts) ==
  IF payable_id \notin DOMAIN L.payables
  THEN Failed(L, "AccountNotInitialized")
  ELSE IF ~is_host(L, payable_id, signer) THEN Failed(L, "NotYourPayable")
  ELSE Done([L EXCEPT !.payables[payable_id].allowed_tokens_and_amounts =
                         allowed_tokens_and_amounts], 0)

(***************************************************************************)
(* Payment Recorder: pay (CosmWasm).                                       *)
(***************************************************************************)
\* Mutant of allowed_loop: an entry matches by its token alone.
RECURSIVE allowed_loop_token_only(_, _, _, _)
allowed_loop_token_only(allowed_tokens_and_amounts, token, amount, i) ==
  IF i > Len(allowed_tokens_and_amounts) THEN TRUE
  ELSE IF allowed_tokens_and_amounts[i].token = token THEN TRUE
  ELSE IF i = Len(allowed_tokens_and_amounts) THEN FALSE
  ELSE allowed_loop_token_only(allowed_tokens_and_amounts, token, amount,
                               i + 1)

\* The loop over allowed_tokens_and_amounts from entry i: TRUE when it
\* leaves by `break` (or runs out), FALSE when it returns
\* MatchingTokenAndAmountNotFound at the last entry.
RECURSIVE allowed_loop(_, _, _, _)
allowed_loop(allowed_tokens_and_amounts, token, amount, i) ==
  IF i > Len(allowed_tokens_and_amounts) THEN TRUE
  ELSE LET taa == allowed_tokens_and_amounts[i]
       IN IF taa.token = token /\ taa.amount = amount THEN TRUE
          ELSE IF i = Len(allowed_tokens_and_amounts) THEN FALSE
          ELSE allowed_loop(allowed_tokens_and_amounts, token, amount, i + 1)

\* The check on the payable's allowed tokens and amounts.
is_allowed(allowed_tokens_and_amounts, token, amount) ==
  IF allowed_tokens_and_amounts # << >>
  THEN allowed_loop(allowed_tokens_and_amounts, token, amount, 1)
  ELSE TRUE

\* The amount the token's entry holds after a payment of amount: the first
\* entry of the token grown by checked_add (None on overflow), or amount
\* for the entry that is pushed when the token has none.
new_balance_amount(balances, token, amount) ==
  LET i == FirstIndex(balances, token)
  IN IF i = 0 THEN amount ELSE checked_add(balances[i].amount, amount)

\* Mutant of add_to_balances: every payment pushes a new entry.
add_to_balances_push(balances, token, amount) ==
  Append(balances, TAA(token, amount))

\* The payable's balances after a payment of amount in token.
add_to_balances(balances, token, amount) ==
  LET i == FirstIndex(balances, token)
  IN IF i = 0 THEN Append(balances, TAA(token, amount))
     ELSE [balances EXCEPT
             ![i].amount = new_balance_amount(balances, token, amount)]

\* create_id: the payment id from the payer and the payer's payments count.
create_id(sender, count) == <<sender, count>>

\* The chain-portable (32-byte) form of a local address.
address_to_bytes32(addr) == <<"bytes32", addr>>

\* Mutant of pay_checks: the amount is checked before the payable's
\* is_closed flag.
pay_checks_amount_first(L, payable_id, token, amount, funds) ==
  IF payable_id \notin DOMAIN L.payables THEN "InvalidPayableId"
  ELSE IF amount = 0 THEN "ZeroAmountSpecified"
  ELSE IF L.payables[payable_id].is_closed THEN "PayableIsClosed"
  ELSE IF token \notin SupportedTokens THEN "InvalidToken"
  ELSE IF ~is_allowed(L.payables[payable_id].allowed_tokens_and_amounts,
                      token, amount)
    THEN "MatchingTokenAndAmountNotFound"
  ELSE IF token = NativeToken /\ funds = 0 THEN "NoFunds"
  ELSE IF token = NativeToken /\ funds # amount
    THEN "InvalidNativeTokenPayment"
  ELSE "Ok"

\* Mutant of pay_checks: the token is checked before the amount.
pay_checks_token_first(L, payable_id, token, amount, funds) ==
  IF payable_id \notin DOMAIN L.payables THEN "InvalidPayableId"
  ELSE IF L.payables[payable_id].is_closed THEN "PayableIsClosed"
  ELSE IF token \notin SupportedTokens THEN "InvalidToken"
  ELSE IF amount = 0 THEN "ZeroAmountSpecified"
  ELSE IF ~is_allowed(L.payables[payable_id].allowed_tokens_and_amounts,
                      token, amount)
    THEN "MatchingTokenAndAmountNotFound"
  ELSE IF token = NativeToken /\ funds = 0 THEN "NoFunds"
  ELSE IF token = NativeToken /\ funds # amount
    THEN "InvalidNativeTokenPayment"
  ELSE "Ok"

\* The checks of pay, in order, then the check of the funds sent with the
\* call when the token is the native one (must_pay).  For a CW20 token pay
\* only prepares the TransferFrom message here.
pay_checks(L, payable_id, token, amount, funds) ==
  IF payable_id \notin DOMAIN L.payables THEN "InvalidPayableId"
  ELSE IF L.payables[payable_id].is_closed THEN "PayableIsClosed"
  ELSE IF amount = 0 THEN "ZeroAmountSpecified"
  ELSE IF token \notin SupportedTokens THEN "InvalidToken"
  ELSE IF ~is_allowed(L.payables[payable_id].allowed_tokens_and_amounts,
                      token, amount)
    THEN "MatchingTokenAndAmountNotFound"
  ELSE IF token = NativeToken /\ funds = 0 THEN "NoFunds"
  ELSE IF token = NativeToken /\ funds # amount
    THEN "InvalidNativeTokenPayment"
  ELSE "Ok"

\* Mutant of payable_after_payment: the payments count is left as it was.
payable_after_payment_same_count(payable, token, amount) ==
  [payable EXCEPT
     !.balances = add_to_balances(payable.balances, token, amount)]

\* The payable after a payment: its payments count and its balances.
payable_after_payment(payable, token, amount) ==
  [payable EXCEPT
     !.payments_count = next_count(payable.payments_count),
     !.balances = add_to_balances(payable.balances, token, amount)]

\* Mutant of pay_commit: the payment id is not appended to the payable's
\* list of payment ids.
pay_commit_unlisted(L, payable_id, sender, token, amount) ==
  LET chain_count == next_count(L.chain_stats.payments_count)
      payer_count == next_count(L.users[sender].payments_count)
      payable == L.payables[payable_id]
      payable_count == next_count(payable.payments_count)
      balance == new_balance_amount(payable.balances, token, amount)
      local_chain_count ==
        checked_add(may_load(L.payable_chain_payments_count, payable_id, 0),
                    1)
      payment_id == create_id(sender, payer_count)
      user_payment ==
        [payable_id |-> payable_id, payer |-> sender,
         payable_chain_id |-> LocalChain, chain_count |-> chain_count,
         payer_count |-> payer_count, payable_count |-> payable_count,
         details |-> TAA(token, amount)]
      payable_payment ==
        [payable_id |-> payable_id, payer |-> address_to_bytes32(sender),
         payer_chain_id |-> LocalChain,
         local_chain_count |-> local_chain_count,
         payable_count |-> payable_count, payer_count |-> payer_count,
         details |-> TAA(token, amount)]
  IN IF None \in {chain_count, payer_count, payable_count, balance,
                  local_chain_count}
     THEN Failed(L, "Panic")
     ELSE Done(
       [L EXCEPT
          !.chain_stats.payments_count = chain_count,
          !.users[sender].payments_count = payer_count,
          !.payables[payable_id] = payable_after_payment(@, token, amount),
          !.payable_chain_payments_count =
             Put(@, payable_id, local_chain_count),
          !.user_payment_ids[sender] = Append(@, payment_id),
          !.user_payments = Put(@, payment_id, user_payment),
          !.payable_payments = Put(@, payment_id, payable_payment)],
       amount)

\* The state changes of pay.  The payable's local-chain count and its list
\* of payment ids are loaded with may_load(..).unwrap_or_default().
pay_commit(L, payable_id, sender, token, amount) ==
  LET chain_count == next_count(L.chain_stats.payments_count)
      payer_count == next_count(L.users[sender].payments_count)
      payable == L.payables[payable_id]
      payable_count == next_count(payable.payments_count)
      balance == new_balance_amount(payable.balances, token, amount)
      local_chain_count ==
        checked_add(may_load(L.payable_chain_payments_count, payable_id, 0),
                    1)
      payment_id == create_id(sender, payer_count)
      user_payment ==
        [payable_id |-> payable_id, payer |-> sender,
         payable_chain_id |-> LocalChain, chain_count |-> chain_count,
         payer_count |-> payer_count, payable_count |-> payable_count,
         details |-> TAA(token, amount)]
      payable_payment ==
        [payable_id |-> payable_id, payer |-> address_to_bytes32(sender),
         payer_chain_id |-> LocalChain,
         local_chain_count |-> local_chain_count,
         payable_count |-> payable_count, payer_count |-> payer_count,
         details |-> TAA(token, amount)]
  IN IF None \in {chain_count, payer_count, payable_count, balance,
                  local_chain_count}
     THEN Failed(L, "Panic")
     ELSE Done(
       [L EXCEPT
          !.chain_stats.payments_count = chain_count,
          !.users[sender].payments_count = payer_count,
          !.payables[payable_id] = payable_after_payment(@, token, amount),
          !.payable_chain_payments_count =
             Put(@, payable_id, local_chain_count),
          !.user_payment_ids[sender] = Append(@, payment_id),
          !.user_payments = Put(@, payment_id, user_payment),
          !.payable_payment_ids =
             Put(@, payable_id,
                 Append(may_load(@, payable_id, << >>), payment_id)),
          !.payable_payments = Put(@, payment_id, payable_payment)],
       amount)

\* The tokens of a payment that pay has recorded (result r) come into
\* custody: the native funds sent with the call, or the CW20 TransferFrom
\* message of the response, which the token contract runs after pay has
\* returned Ok and which fails when the payer's allowance or balance
\* (funds) is short; its failure reverts what pay wrote.
receive_tokens(L, r, token, amount, funds) ==
  IF r.err # "Ok" THEN r
  ELSE IF token # NativeToken /\ funds < amount
    THEN Failed(L, "Cw20TransferFailed")
  ELSE Done([r.ledger EXCEPT !.custody[token] = @ + amount], r.net)

pay(L, payable_id, sender, token, amount, funds) ==
  LET err == pay_checks(L, payable_id, token, amount, funds)
  IN IF err # "Ok" THEN Failed(L, err)
     ELSE receive_tokens(L, pay_commit(L, payable_id, sender, token, amount),
                         token, amount, funds)

(***************************************************************************)
(* Withdrawal Processor: withdraw and withdraw_received (Solana).          *)
(***************************************************************************)
\* The loop of check_withdraw_inputs over the balances from entry i.
RECURSIVE check_balances_loop(_, _, _, _)
check_balances_loop(balances, mint, amount, i) ==
  IF i > Len(balances) THEN "Ok"
  ELSE IF balances[i].token = mint
    THEN IF balances[i].amount < amount
         THEN "InsufficientWithdrawAmount"
         ELSE "Ok"
  ELSE IF i = Len(balances) THEN "NoBalanceForWithdrawalToken"
  ELSE check_balances_loop(balances, mint, amount, i + 1)

check_withdraw_inputs(amount, mint, balances) ==
  IF ~(amount > 0) THEN "ZeroAmountSpecified"
  ELSE check_balances_loop(balances, mint, amount, 1)

\* What a handler does with the result of check_withdraw_inputs: both
\* handlers call it as a statement and drop the Result, so whatever it
\* returns the handler goes on.
after_check_withdraw_inputs(result) == "Ok"

\* Mutant of amount_minus_fees: the fee, not the net amount, is rounded down.
amount_minus_fees_fee_floored(amount) == amount - (amount * 2) \div 100

\* amount.checked_mul(98).unwrap().checked_div(100).unwrap(); None when an
\* unwrap panics.
amount_minus_fees(amount) ==
  LET product == checked_mul(amount, 98)
  IN IF product = None THEN None ELSE checked_div(product, 100)

\* The amount the token's first entry holds after the deduction: None when
\* checked_sub fails, the unchanged 0 of "no entry" when the token has none.
deducted_amount(balances, mint, amount) ==
  LET i == FirstIndex(balances, mint)
  IN IF i = 0 THEN 0 ELSE checked_sub(balances[i].amount, amount)

\* Mutant of deduct_from_balances: an entry that is emptied is removed.
deduct_from_balances_drops_empty(balances, mint, amount) ==
  LET i == FirstIndex(balances, mint)
  IN IF i = 0 THEN balances
     ELSE IF deducted_amount(balances, mint, amount) = 0
       THEN SubSeq(balances, 1, i - 1) \o SubSeq(balances, i + 1, Len(balances))
     ELSE [balances EXCEPT
             ![i].amount = deducted_amount(balances, mint, amount)]

\* The balances after the deduction loop of update_state_for_withdrawal.
deduct_from_balances(balances, mint, amount) ==
  LET i == FirstIndex(balances, mint)
  IN IF i = 0 THEN balances
     ELSE [balances EXCEPT
             ![i].amount = deducted_amount(balances, mint, amount)]

\* Mutant of update_state_for_withdrawal: the payable's withdrawals_count
\* is not incremented.
update_state_for_withdrawal_same_count(L, amount, mint, payable_id, host, net) ==
  LET global_count == checked_add(L.chain_stats.withdrawals_count, 1)
      payable == L.payables[payable_id]
      balance == deducted_amount(payable.balances, mint, amount)
      balances == deduct_from_balances(payable.balances, mint, amount)
      host_count == checked_add(L.users[host].withdrawals_count, 1)
      withdrawal ==
        [global_count |-> global_count, payable |-> payable_id,
         payable_count |-> payable.withdrawals_count,
         host |-> user_account(host),
         host_count |-> host_count, details |-> TAA(mint, amount)]
  IN IF None \in {global_count, balance, host_count}
     THEN Failed(L, "Panic")
     ELSE Done(
       [L EXCEPT
          !.chain_stats.withdrawals_count = global_count,
          !.payables[payable_id] = [@ EXCEPT !.balances = balances],
          !.users[host].withdrawals_count = host_count,
          !.withdrawals = Put(@, <<host, host_count>>, withdrawal)],
       net)

update_state_for_withdrawal(L, amount, mint, payable_id, host, net) ==
  LET global_count == checked_add(L.chain_stats.withdrawals_count, 1)
      payable == L.payables[payable_id]
      payable_count == checked_add(payable.withdrawals_count, 1)
      balance == deducted_amount(payable.balances, mint, amount)
      balances == deduct_from_balances(payable.balances, mint, amount)
      host_count == checked_add(L.users[host].withdrawals_count, 1)
      withdrawal ==
        [global_count |-> global_count, payable |-> payable_id,
         payable_count |-> payable_count, host |-> user_account(host),
         host_count |-> host_count, details |-> TAA(mint, amount)]
  IN IF None \in {global_count, payable_count, balance, host_count}
     THEN Failed(L, "Panic")
     ELSE Done(
       [L EXCEPT
          !.chain_stats.withdrawals_count = global_count,
          !.payables[payable_id] =
             [@ EXCEPT !.withdrawals_count = payable_count,
                       !.balances = balances],
          !.users[host].withdrawals_count = host_count,
          !.withdrawals = Put(@, <<host, host_count>>, withdrawal)],
       net)

\* Mutant of transfer_and_update: the gross amount leaves the program's
\* token account.
transfer_and_update_gross(L, amount, mint, payable_id, host) ==
  LET net == amount_minus_fees(amount)
  IN IF net = None THEN Failed(L, "Panic")
     ELSE IF L.custody[mint] < amount THEN Failed(L, "InsufficientFunds")
     ELSE update_state_for_withdrawal(
            [L EXCEPT !.custody[mint] = @ - amount],
            amount, mint, payable_id, host, net)

\* The token transfer out of the program's token account and the state
\* updates that follow it.
transfer_and_update(L, amount, mint, payable_id, host) ==
  LET net == amount_minus_fees(amount)
  IN IF net = None THEN Failed(L, "Panic")
     ELSE IF L.custody[mint] < net THEN Failed(L, "InsufficientFunds")
     ELSE update_state_for_withdrawal(
            [L EXCEPT !.custody[mint] = @ - net],
            amount, mint, payable_id, host, net)

\* The transaction around a handler's run: a run that returns an error or
\* panics is aborted, and everything it wrote (the transfer, the account
\* writes) is discarded.
Atomic(L, result) == IF result.err = "Ok" THEN result ELSE Failed(L, result.err)

\* The body of withdraw_handler: its outcome and the ledger as the handler
\* has written it when it returns.
withdraw_handler_run(L, payable_id, signer, mint, amount) ==
  LET checks == after_check_withdraw_inputs(
                  check_withdraw_inputs(amount, mint,
                                        L.payables[payable_id].balances))
  IN IF checks # "Ok" THEN Failed(L, checks)
     ELSE transfer_and_update(L, amount, mint, payable_id, signer)

withdraw_handler(L, payable_id, signer, mint, amount) ==
  IF payable_id \notin DOMAIN L.payables
  THEN Failed(L, "AccountNotInitialized")
  ELSE IF ~is_host(L, payable_id, signer) THEN Failed(L, "NotYourPayable")
  ELSE Atomic(L, withdraw_handler_run(L, payable_id, signer, mint, amount))

\* The two action kinds a message can carry.
ACTION_ID_PAY == "pay"
ACTION_ID_WITHDRAW == "withdraw"

\* require!(vaa.data().action_id = ACTION_ID_WITHDRAW, InvalidActionId): the
\* condition assigns the expected kind instead of comparing with it, so it
\* does not depend on the kind the message carries.
action_id_is_expected(action_id) == TRUE

\* The account constraints of WithdrawReceived: the message was not received
\* before (its wormhole_received account is created by this call), and the
\* host account is the payable's host.
withdraw_received_context(L, vaa, host, payable_id) ==
  IF vaa \in L.wormhole_received THEN "DuplicateMessage"
  ELSE IF payable_id \notin DOMAIN L.payables THEN "AccountNotInitialized"
  ELSE IF ~is_host(L, payable_id, host) THEN "NotYourPayable"
  ELSE "Ok"

\* Mutant of withdraw_received_checks: the host count is not compared with
\* the host's next withdrawal count.
withdraw_received_checks_any_count(L, vaa, caller, host_count, host, payable_id, mint, amount) ==
  IF ~(vaa.caller = caller /\ caller # ZeroAddress)
    THEN "InvalidCallerAddress"
  ELSE IF ~action_id_is_expected(vaa.action_id) THEN "InvalidActionId"
  ELSE IF ~(host = caller /\ ChainOf(host) = vaa.emitter_chain)
    THEN "UnauthorizedCallerAddress"
  ELSE IF next_count(L.users[host].withdrawals_count) = None THEN "Panic"
  ELSE IF payable_id # vaa.payable_id THEN "NotMatchingPayableId"
  ELSE IF vaa.token # mint THEN "NotMatchingTransactionToken"
  ELSE IF vaa.amount # amount THEN "NotMatchingTransactionAmount"
  ELSE after_check_withdraw_inputs(
         check_withdraw_inputs(vaa.amount, mint,
                               L.payables[payable_id].balances))

\* The require! checks of withdraw_received_handler, in order.
withdraw_received_checks(L, vaa, caller, host_count, host, payable_id, mint, amount) ==
  IF ~(vaa.caller = caller /\ caller # ZeroAddress)
    THEN "InvalidCallerAddress"
  ELSE IF ~action_id_is_expected(vaa.action_id) THEN "InvalidActionId"
  ELSE IF ~(host = caller /\ ChainOf(host) = vaa.emitter_chain)
    THEN "UnauthorizedCallerAddress"
  ELSE IF next_count(L.users[host].withdrawals_count) = None THEN "Panic"
  ELSE IF host_count # next_count(L.users[host].withdrawals_count)
    THEN "WrongWithdrawalsHostCountProvided"
  ELSE IF payable_id # vaa.payable_id THEN "NotMatchingPayableId"
  ELSE IF vaa.token # mint THEN "NotMatchingTransactionToken"
  ELSE IF vaa.amount # amount THEN "NotMatchingTransactionAmount"
  ELSE after_check_withdraw_inputs(
         check_withdraw_inputs(vaa.amount, mint,
                               L.payables[payable_id].balances))

\* Mutant of withdraw_received_handler_run: the message is not written to its
\* wormhole_received account.
withdraw_received_handler_run_no_record(L, vaa, caller, host_count, host, payable_id, mint, amount) ==
  LET err == withdraw_received_checks(L, vaa, caller, host_count, host,
                                      payable_id, mint, amount)
  IN IF err # "Ok" THEN Failed(L, err)
     ELSE transfer_and_update(L, vaa.amount, mint, payable_id, host)

\* The body of withdraw_received_handler: its outcome and the ledger as
\* the handler has written it when it returns.  The wormhole_received
\* account is written after the caller check and before the other checks.
withdraw_received_handler_run(L, vaa, caller, host_count, host, payable_id, mint, amount) ==
  LET err == withdraw_received_checks(L, vaa, caller, host_count, host,
                                      payable_id, mint, amount)
      received == [L EXCEPT !.wormhole_received = @ \cup {vaa}]
  IN IF err = "InvalidCallerAddress" THEN Failed(L, err)
     ELSE IF err # "Ok" THEN Failed(received, err)
     ELSE transfer_and_update(received, vaa.amount, mint, payable_id, host)

withdraw_received_handler(L, vaa, caller, host_count, host, payable_id, mint, amount) ==
  LET ctx == withdraw_received_context(L, vaa, host, payable_id)
  IN IF ctx # "Ok" THEN Failed(L, ctx)
     ELSE Atomic(L, withdraw_received_handler_run(
                      L, vaa, caller, host_count, host, payable_id, mint,
                      amount))

(***************************************************************************)
(* Payment Recorder: the queries of payment ids.                           *)
(***************************************************************************)
\* HexBinary::from(id).to_hex(): the id as the query returns it.
to_hex(id) == <<"hex", id>>

NoId == << >>

\* payment_ids[(count - 1) as usize] on a loaded list of ids: the id at
\* that place, or a panic.  For count 0 the subtraction overflows or, where
\* the build lets it wrap, the index is out of bounds: a panic on either
\* build.
payment_id_at(payment_ids, count) ==
  IF count = 0 \/ count - 1 >= Len(payment_ids)
  THEN [err |-> "Panic", id |-> NoId]
  ELSE [err |-> "Ok", id |-> to_hex(payment_ids[count])]

\* The load of a list of payment ids: pay saves the list with its first
\* id, so a list without ids is one that was never saved.
load_payment_ids(payment_ids, count) ==
  IF payment_ids = << >> THEN [err |-> "NotFound", id |-> NoId]
  ELSE payment_id_at(payment_ids, count)

\* The query user_payment_id.  A wallet without a stored user counts as a
\* user with payments_count 0.
user_payment_id(L, reference, count) ==
  LET user == IF reference \in DOMAIN L.users THEN L.users[reference]
              ELSE InitUser
  IN IF count > user.payments_count
     THEN [err |-> "InvalidUserPaymentCount", id |-> NoId]
     ELSE load_payment_ids(L.user_payment_ids[reference], count)

\* The query payable_payment_id.
payable_payment_id(L, reference, count) ==
  IF reference \notin DOMAIN L.payables
  THEN [err |-> "InvalidPayableId", id |-> NoId]
  ELSE IF count > L.payables[reference].payments_count
  THEN [err |-> "InvalidPayablePaymentCount", id |-> NoId]
  ELSE load_payment_ids(may_load(L.payable_payment_ids, reference, << >>),
                        count)

(***************************************************************************)
(* Inputs offered to the handlers.                                         *)
(***************************************************************************)
\* Wallets that create payables on this chain, and on the remote chain.
LocalHosts == {"w1"}
RemoteHosts == {"r1"}

\* Allowed tokens and amounts offered at creation.
AllowedLists ==
  { <<TAA("tA", 1)>>,
    <<TAA("tA", 1), TAA("tB", 2), TAA("tA", 2)>>,
    <<TAA("tB", 2), TAA("tA", 0)>>,
    <<TAA("tA", 0), TAA("tB", 2)>>,
    <<TAA("tA", 1), TAA("tB", 0), TAA("tA", 2)>>,
    <<TAA("tX", 1)>> }

RemoteAllowedLists ==
  { << >>, <<TAA("tB", 2), TAA("tA", 0)>>, <<TAA("tA", 0), TAA("tB", 2)>>,
    <<TAA("tA", 1), TAA("tB", 2), TAA("tA", 2)>> }

\* Descriptions offered to initialize_payable: none, blank, two that are
\* trimmed (at the start, at the end), and one that is too long.
Descriptions ==
  { << >>, <<" ">>, <<" ", "a">>, <<"b", " ">>, <<"a", "b", "c", "d">> }

\* Tokens and amounts offered to initialize_payable.
InitializeLists == AllowedLists \cup { << >> }

\* Allowed tokens and amounts offered to an update.
UpdateLists ==
  { <<TAA("tA", 1)>>, <<TAA("tA", 1), TAA("tB", 2), TAA("tA", 2)>> }

\* The TokenDetails accounts that belong to a list, in its order.
DetailsFor(list) == [i \in 1 .. Len(list) |-> TokenDetailsOf(list[i].token)]

\* Remaining accounts offered with a list: the right ones, none, and the
\* right ones with the first replaced by another account or another token.
RemainingAccounts(list) ==
  {DetailsFor(list), << >>,
   [DetailsFor(list) EXCEPT ![1] = OtherAccount],
   [DetailsFor(list) EXCEPT ![1] = TokenDetailsOf("tB")]}

\* Payables a call can name: the existing ones and one that does not exist.
NamedPayables == DOMAIN payables \cup {<<"w2", 1>>}

\* Funds sent with a payment of amount: none, the amount, one more.
FundsFor(amount) == {0, amount, amount + 1}

\* A well-formed withdrawal request of a payable's host from the remote
\* chain: the attested message and the arguments and accounts that go with it.
Request(payable_id, token, amount) ==
  LET host == payable_id[1]    \* the wallet the payable was created by
  IN [vaa |-> [emitter_chain |-> RemoteChain, caller |-> host,
               action_id |-> ACTION_ID_WITHDRAW, payable_id |-> payable_id,
               token |-> token, amount |-> amount],
      caller |-> host,
      host_count |-> users[host].withdrawals_count + 1,
      host |-> host,
      payable_id |-> payable_id,
      mint |-> token,
      amount |-> amount]

\* The ways a request can deviate from a well-formed one.
Deviations ==
  {"zero_caller", "other_caller", "pay_action", "other_host", "late_count",
   "used_count", "other_payable", "other_mint", "other_amount", "replayed"}

OtherOf(x, S) == IF \E y \in S : y # x THEN CHOOSE y \in S : y # x ELSE x

Deviate(req, d) ==
  CASE d = "zero_caller" ->
         [req EXCEPT !.vaa.caller = ZeroAddress, !.caller = ZeroAddress]
    [] d = "other_caller" -> [req EXCEPT !.caller = "w2"]
    [] d = "pay_action" -> [req EXCEPT !.vaa.action_id = ACTION_ID_PAY]
    [] d = "other_host" -> [req EXCEPT !.host = "w2"]
    [] d = "late_count" -> [req EXCEPT !.host_count = @ + 1]
    [] d = "used_count" -> [req EXCEPT !.host_count = @ - 1]
    [] d = "other_payable" ->
         [req EXCEPT !.vaa.payable_id = OtherOf(@, NamedPayables)]
    [] d = "other_mint" -> [req EXCEPT !.mint = OtherOf(@, SupportedTokens)]
    [] d = "other_amount" -> [req EXCEPT !.amount = OtherOf(@, Amounts)]
    [] d = "replayed" ->
         [req EXCEPT !.vaa = OtherOf(@, wormhole_received \cup {@})]

\* The requests offered: well-formed ones, and those with one deviation.
Requests ==
  LET wellformed == {Request(p, t, a) : p \in DOMAIN payables,
                                        t \in SupportedTokens, a \in Amounts}
  IN wellformed
       \cup {Deviate(req, d) : req \in wellformed, d \in Deviations}

(***************************************************************************)
(* Actions: one handler call each, committed as one transaction.           *)
(***************************************************************************)
CreatePayable ==
  /\ chain_stats.payables_count < MaxPayables
  /\ \E signer \in LocalHosts, list \in AllowedLists :
       \E remaining \in RemainingAccounts(list) :
         Transaction(create_payable_handler(Ledger, signer, list, remaining))

InitializePayableReceived ==
  /\ chain_stats.payables_count < MaxPayables
  /\ \E caller \in RemoteHosts, list \in RemoteAllowedLists :
       Transaction(initialize_payable_received_handler(Ledger, caller, list))

InitializePayable ==
  /\ chain_stats.payables_count < MaxPayables
  /\ \E signer \in LocalHosts, description \in Descriptions,
        list \in InitializeLists, allows_free_payments \in BOOLEAN :
       Transaction(initialize_payable_handler(Ledger, signer, description,
                                              list, allows_free_payments))

ClosePayable ==
  \E payable_id \in NamedPayables, signer \in LocalWallets :
    Transaction(update_payable_handler(Ledger, payable_id, signer, TRUE))

ReopenPayable ==
  \E payable_id \in NamedPayables, signer \in LocalWallets :
    Transaction(update_payable_handler(Ledger, payable_id, signer, FALSE))

UpdatePayableAllowedTokensAndAmounts ==
  \E payable_id \in NamedPayables, signer \in LocalWallets,
     list \in UpdateLists :
    Transaction(update_payable_allowed_tokens_and_amounts_handler(
                  Ledger, payable_id, signer, list))

Pay ==
  /\ chain_stats.payments_count < MaxPayments
  /\ \E payable_id \in NamedPayables, sender \in LocalWallets,
        token \in Tokens, amount \in Amounts :
       \E funds \in FundsFor(amount) :
         Transaction(pay(Ledger, payable_id, sender, token, amount, funds))

Withdraw ==
  /\ chain_stats.withdrawals_count < MaxWithdrawals
  /\ \E payable_id \in NamedPayables, signer \in LocalWallets,
        mint \in Tokens, amount \in WithdrawAmounts :
       Transaction(withdraw_handler(Ledger, payable_id, signer, mint, amount))

WithdrawReceived ==
  /\ chain_stats.withdrawals_count < MaxWithdrawals
  /\ \E req \in Requests :
       Transaction(withdraw_received_handler(
                     Ledger, req.vaa, req.caller, req.host_count, req.host,
                     req.payable_id, req.mint, req.amount))

\* The instructions whose handlers are in the source.  owner_withdraw,
\* update_max_withdrawal_fees, initialize_user and register_foreign_contract
\* of handlers/mod.rs have no step: their handlers are not in the source;
\* a user's counters are those of InitUser until a handler writes them.
Next ==
  \/ CreatePayable
  \/ InitializePayable
  \/ InitializePayableReceived
  \/ ClosePayable
  \/ ReopenPayable
  \/ UpdatePayableAllowedTokensAndAmounts
  \/ Pay
  \/ Withdraw
  \/ WithdrawReceived

Spec == Init /\ [][Next]_vars

\* The Payable Registry on its own: the entry points that create a payable
\* and those that update one.
NextRegistry ==
  \/ CreatePayable
  \/ InitializePayable
  \/ InitializePayableReceived
  \/ ClosePayable
  \/ ReopenPayable
  \/ UpdatePayableAllowedTokensAndAmounts

SpecRegistry == Init /\ [][NextRegistry]_vars

(***************************************************************************)
(* Properties.  A property of a handler is stated over every call offered  *)
(* in every reachable state: the outcome of the call is what the action    *)
(* commits.                                                                *)
(***************************************************************************)
\* balances[token]: the amount of the token's entry, 0 when it has none.
BalanceOf(balances, token) ==
  LET i == FirstIndex(balances, token)
  IN IF i = 0 THEN 0 ELSE balances[i].amount

HasEntry(balances, token) == FirstIndex(balances, token) # 0

\* The payments a payable has recorded.
PaymentsOf(payable_id) ==
  {id \in DOMAIN payable_payments :
     payable_payments[id].payable_id = payable_id}

\* The withdrawal counters of the chain, the payables and the users.
WithdrawalCounters(L) ==
  <<L.chain_stats.withdrawals_count,
    [p \in DOMAIN L.payables |-> L.payables[p].withdrawals_count],
    [w \in Wallets |-> L.users[w].withdrawals_count]>>

\* The payment counters of the chain, the users, the payables and the
\* payables per chain.
PaymentCounters(L) ==
  <<L.chain_stats.payments_count,
    [w \in Wallets |-> L.users[w].payments_count],
    [p \in DOMAIN L.payables |-> L.payables[p].payments_count],
    L.payable_chain_payments_count>>

AllBalances(L) == [p \in DOMAIN L.payables |-> L.payables[p].balances]

\* The local withdrawals a host can ask for.
HostWithdrawals ==
  {c \in [payable_id : DOMAIN payables, mint : Tokens,
          amount : WithdrawAmounts] :
     payables[c.payable_id].host \in LocalWallets}

WithdrawBy(c) ==
  withdraw_handler(Ledger, c.payable_id, payables[c.payable_id].host,
                   c.mint, c.amount)

WithdrawReceivedBy(req) ==
  withdraw_received_handler(Ledger, req.vaa, req.caller, req.host_count,
                            req.host, req.payable_id, req.mint, req.amount)

\* C1: every successful pay leaves balances[token] of the payable at its
\* value before plus amount (the entry exists afterwards), and leaves the
\* payable's other tokens and every other payable's balances unchanged.
C1_PayAddsAmount ==
  \A payable_id \in NamedPayables, sender \in LocalWallets,
     token \in Tokens, amount \in Amounts :
    \A funds \in FundsFor(amount) :
      LET r == pay(Ledger, payable_id, sender, token, amount, funds)
      IN r.err = "Ok" =>
           LET before == payables[payable_id].balances
               after == r.ledger.payables[payable_id].balances
           IN /\ HasEntry(after, token)
              /\ BalanceOf(after, token) = BalanceOf(before, token) + amount
              /\ \A t \in Tokens \ {token} :
                   /\ HasEntry(after, t) = HasEntry(before, t)
                   /\ BalanceOf(after, t) = BalanceOf(before, t)
              /\ DOMAIN r.ledger.payables = DOMAIN payables
              /\ \A q \in DOMAIN payables \ {payable_id} :
                   r.ledger.payables[q].balances = payables[q].balances

\* Two payments of one token were made to a payable, another payable
\* exists, and the token's entry holds the sum of the two.
C1_Witness ==
  \E p \in DOMAIN payables :
    /\ DOMAIN payables # {p}
    /\ payables[p].withdrawals_count = 0
    /\ Len(may_load(payable_payment_ids, p, << >>)) = 2
    /\ LET d1 == payable_payments[may_load(payable_payment_ids, p, << >>)[1]].details
           d2 == payable_payments[may_load(payable_payment_ids, p, << >>)[2]].details
       IN /\ d1.token = d2.token
          /\ payables[p].balances = <<TAA(d1.token, d1.amount + d2.amount)>>

\* C2: a withdraw of more than the token's entry holds fails with
\* InsufficientWithdrawAmount and leaves the ledger as it was.
C2_ExcessWithdrawRejected ==
  \A c \in HostWithdrawals :
    (/\ HasEntry(payables[c.payable_id].balances, c.mint)
     /\ c.amount > BalanceOf(payables[c.payable_id].balances, c.mint))
      => /\ WithdrawBy(c).err = "InsufficientWithdrawAmount"
         /\ WithdrawBy(c).ledger = Ledger

\* C3: a withdraw of a positive amount of a token the payable has no entry
\* for fails with NoBalanceForWithdrawalToken and leaves the ledger as it
\* was.
C3_NoEntryWithdrawRejected ==
  \A c \in HostWithdrawals :
    (c.amount > 0 /\ ~HasEntry(payables[c.payable_id].balances, c.mint))
      => /\ WithdrawBy(c).err = "NoBalanceForWithdrawalToken"
         /\ WithdrawBy(c).ledger = Ledger

\* C4: a withdraw of amount zero fails with ZeroAmountSpecified, records no
\* withdrawal and increments no withdrawal counter.
C4_ZeroWithdrawRejected ==
  \A c \in HostWithdrawals :
    c.amount = 0
      => /\ WithdrawBy(c).err = "ZeroAmountSpecified"
         /\ WithdrawBy(c).ledger.withdrawals = withdrawals
         /\ WithdrawalCounters(WithdrawBy(c).ledger)
              = WithdrawalCounters(Ledger)

\* C5: every successful withdrawal lowers balances[token] of the payable by
\* the gross amount and leaves the payable's other tokens unchanged.
C5_WithdrawDeductsGross ==
  \A c \in HostWithdrawals :
    WithdrawBy(c).err = "Ok"
      => LET before == payables[c.payable_id].balances
             after == WithdrawBy(c).ledger.payables[c.payable_id].balances
         IN /\ BalanceOf(after, c.mint) = BalanceOf(before, c.mint) - c.amount
            /\ \A t \in Tokens \ {c.mint} :
                 BalanceOf(after, t) = BalanceOf(before, t)

\* C6, as stated: every successful withdrawal transfers
\* amount - floor(amount * 2 / 100) to the host.
C6_NetIsAmountLessFlooredFee ==
  /\ \A c \in HostWithdrawals :
       WithdrawBy(c).err = "Ok"
         => WithdrawBy(c).net = c.amount - (c.amount * 2) \div 100
  /\ \A req \in Requests :
       WithdrawReceivedBy(req).err = "Ok"
         => WithdrawReceivedBy(req).net
              = req.amount - (req.amount * 2) \div 100

\* The 2% fee of an amount, rounded up.
CeilFee(amount) == (amount * 2 + 99) \div 100

\* C6, amended: every successful withdrawal transfers amount less the 2% fee
\* rounded up, amount - ceil(amount * 2 / 100), to the host.
C6_NetIsAmountLessCeiledFee ==
  /\ \A c \in HostWithdrawals :
       WithdrawBy(c).err = "Ok"
         => WithdrawBy(c).net = c.amount - CeilFee(c.amount)
  /\ \A req \in Requests :
       WithdrawReceivedBy(req).err = "Ok"
         => WithdrawReceivedBy(req).net = req.amount - CeilFee(req.amount)

\* A withdrawal of an amount whose 2% is no whole number was recorded.
C6_Witness ==
  \E id \in DOMAIN withdrawals :
    /\ withdrawals[id].details.amount > 0
    /\ (withdrawals[id].details.amount * 2) % 100 # 0

\* C7: on the local and on the cross-chain path, a successful withdrawal
\* transfers amount * 98 / 100 (truncated) out of custody, so that the
\* remainder of the amount stays in custody.
C7_NetIsTruncated98Percent ==
  /\ \A c \in HostWithdrawals :
       LET r == WithdrawBy(c)
       IN r.err = "Ok"
            => /\ r.net = (c.amount * 98) \div 100
               /\ r.ledger.custody =
                    [custody EXCEPT ![c.mint] = @ - (c.amount * 98) \div 100]
  /\ \A req \in Requests :
       LET r == WithdrawReceivedBy(req)
       IN r.err = "Ok"
            => /\ r.net = (req.amount * 98) \div 100
               /\ r.ledger.custody =
                    [custody EXCEPT
                       ![req.mint] = @ - (req.amount * 98) \div 100]

\* A cross-chain withdrawal of 2 emptied a balance and left its fee of 1 in
\* custody.
C7_Witness ==
  \E id \in DOMAIN withdrawals :
    LET w == withdrawals[id]
    IN /\ wormhole_received # {}
       /\ w.details.amount = 2
       /\ HasEntry(payables[w.payable].balances, w.details.token)
       /\ BalanceOf(payables[w.payable].balances, w.details.token) = 0
       /\ custody[w.details.token] = 1

\* C8: a payable that recorded N payments has payments_count N and N
\* payment ids, the i-th id is that of the payment with payable_count i,
\* and a pay that fails changes nothing.
C8_PaymentsCounted ==
  /\ \A p \in DOMAIN payables :
       LET N == Cardinality(PaymentsOf(p))
           ids == may_load(payable_payment_ids, p, << >>)
       IN /\ payables[p].payments_count = N
          /\ Len(ids) = N
          /\ \A i \in 1 .. Len(ids) :
               /\ ids[i] \in PaymentsOf(p)
               /\ payable_payments[ids[i]].payable_count = i
  /\ \A payable_id \in NamedPayables, sender \in LocalWallets,
        token \in Tokens, amount \in Amounts :
       \A funds \in FundsFor(amount) :
         LET r == pay(Ledger, payable_id, sender, token, amount, funds)
         IN r.err # "Ok" => r.ledger = Ledger

\* A payable recorded two payments.
C8_Witness ==
  \E p \in DOMAIN payables :
    /\ payables[p].payments_count = 2
    /\ Cardinality(PaymentsOf(p)) = 2
    /\ payable_payments[may_load(payable_payment_ids, p, << >>)[2]].payable_count = 2

\* C9: a pay to a closed payable fails with PayableIsClosed and leaves the
\* payment counters, the balances and the payment-id lists unchanged.
C9_ClosedPayableRejectsPay ==
  \A payable_id \in DOMAIN payables, sender \in LocalWallets,
     token \in Tokens, amount \in Amounts :
    \A funds \in FundsFor(amount) :
      LET r == pay(Ledger, payable_id, sender, token, amount, funds)
      IN payables[payable_id].is_closed
           => /\ r.err = "PayableIsClosed"
              /\ PaymentCounters(r.ledger) = PaymentCounters(Ledger)
              /\ AllBalances(r.ledger) = AllBalances(Ledger)
              /\ r.ledger.user_payment_ids = user_payment_ids
              /\ r.ledger.payable_payment_ids = payable_payment_ids

\* A payable that was paid and then closed rejects a payment it accepted
\* before.
C9_Witness ==
  \E p \in DOMAIN payables :
    /\ payables[p].is_closed
    /\ payables[p].payments_count > 0
    /\ LET d == payable_payments[may_load(payable_payment_ids, p, << >>)[1]].details
       IN pay(Ledger, p, "w2", d.token, d.amount, d.amount).err
            = "PayableIsClosed"

\* C10: a pay of a nonzero amount of a supported token to an open payable
\* fails with MatchingTokenAndAmountNotFound exactly when the allowed list
\* is not empty and none of its entries is (token, amount).
C10_AllowedListDecides ==
  \A payable_id \in DOMAIN payables, sender \in LocalWallets,
     token \in SupportedTokens, amount \in Amounts \ {0} :
    \A funds \in FundsFor(amount) :
      LET r == pay(Ledger, payable_id, sender, token, amount, funds)
          allowed == payables[payable_id].allowed_tokens_and_amounts
      IN ~payables[payable_id].is_closed
           => (r.err = "MatchingTokenAndAmountNotFound"
                 <=> /\ allowed # << >>
                     /\ \A i \in 1 .. Len(allowed) :
                          allowed[i] # TAA(token, amount))

\* A payable with three allowed entries recorded a payment that matches its
\* last entry and rejects one that matches none, and a payable with no
\* allowed entries recorded a payment.
C10_Witness ==
  /\ \E p \in DOMAIN payables :
       LET allowed == payables[p].allowed_tokens_and_amounts
       IN /\ Len(allowed) = 3
          /\ ~payables[p].is_closed
          /\ \E id \in PaymentsOf(p) :
               /\ payable_payments[id].details = allowed[3]
               /\ payable_payments[id].details # allowed[1]
          /\ pay(Ledger, p, "w2", "tB", 1, 1).err
               = "MatchingTokenAndAmountNotFound"
  /\ \E q \in DOMAIN payables :
       /\ payables[q].allowed_tokens_and_amounts = << >>
       /\ PaymentsOf(q) # {}

\* The rules of pay a request can violate, each stated on its own:
\* 1 the payable exists, 2 it is not closed, 3 the amount is not zero,
\* 4 the token is supported, 5 a non-empty allowed list holds the pair.
PayRuleViolated(n, payable_id, token, amount) ==
  CASE n = 1 -> payable_id \notin DOMAIN payables
    [] n = 2 -> /\ payable_id \in DOMAIN payables
                /\ payables[payable_id].is_closed
    [] n = 3 -> amount = 0
    [] n = 4 -> token \notin SupportedTokens
    [] n = 5 -> /\ payable_id \in DOMAIN payables
                /\ LET allowed == payables[payable_id].allowed_tokens_and_amounts
                   IN /\ Len(allowed) > 0
                      /\ \A i \in 1 .. Len(allowed) :
                           allowed[i] # TAA(token, amount)

PayRuleError(n) ==
  CASE n = 1 -> "InvalidPayableId"
    [] n = 2 -> "PayableIsClosed"
    [] n = 3 -> "ZeroAmountSpecified"
    [] n = 4 -> "InvalidToken"
    [] n = 5 -> "MatchingTokenAndAmountNotFound"

\* C11: a pay request that violates one or more of the five validation
\* rules fails with the error of the first rule it violates, in the order
\* InvalidPayableId, PayableIsClosed, ZeroAmountSpecified, InvalidToken,
\* MatchingTokenAndAmountNotFound.
C11_FirstFailingCheckWins ==
  \A payable_id \in NamedPayables, sender \in LocalWallets,
     token \in Tokens, amount \in Amounts :
    \A funds \in FundsFor(amount) :
      \A n \in 1 .. 5 :
        (/\ PayRuleViolated(n, payable_id, token, amount)
         /\ \A m \in 1 .. (n - 1) :
              ~PayRuleViolated(m, payable_id, token, amount))
          => pay(Ledger, payable_id, sender, token, amount, funds).err
               = PayRuleError(n)

\* A closed payable with allowed entries is offered amount zero of an
\* unsupported token (rules 2, 3, 4 and 5 violated at once), and an open one
\* with allowed entries is offered the same (rules 3, 4, 5) and a nonzero
\* amount of the unsupported token (rules 4 and 5).
C11_Witness ==
  /\ \E p \in DOMAIN payables :
       /\ payables[p].is_closed
       /\ \A n \in 2 .. 5 : PayRuleViolated(n, p, "tX", 0)
       /\ pay(Ledger, p, "w2", "tX", 0, 0).err = "PayableIsClosed"
  /\ \E q \in DOMAIN payables :
       /\ ~payables[q].is_closed
       /\ \A n \in 3 .. 5 : PayRuleViolated(n, q, "tX", 0)
       /\ pay(Ledger, q, "w2", "tX", 0, 0).err = "ZeroAmountSpecified"
       /\ \A n \in 4 .. 5 : PayRuleViolated(n, q, "tX", 2)
       /\ pay(Ledger, q, "w2", "tX", 2, 2).err = "InvalidToken"

\* The wallet of the host a withdrawal records: the record holds the key of
\* the host's User account.
HostWallet(withdrawal) ==
  CHOOSE w \in Wallets : user_account(w) = withdrawal.host

\* The withdrawals recorded for hosts of the remote chain: those that
\* withdraw_received applied.
ReceivedWithdrawals ==
  {id \in DOMAIN withdrawals : HostWallet(withdrawals[id]) \in RemoteWallets}

\* The message asked for the withdrawal.
IsMessageOf(vaa, w) ==
  /\ vaa.caller = HostWallet(w)
  /\ vaa.payable_id = w.payable
  /\ vaa.token = w.details.token
  /\ vaa.amount = w.details.amount

\* C12: a message is applied at most once: every cross-chain withdrawal
\* recorded has its message in the replay guard, there are as many of the
\* one as of the other, and a request that submits a message of the replay
\* guard again is rejected and leaves the ledger (balances, withdrawal
\* counters, custody) as it was after the first application.
C12_ReplayRejected ==
  /\ \A id \in ReceivedWithdrawals :
       \E vaa \in wormhole_received : IsMessageOf(vaa, withdrawals[id])
  /\ Cardinality(wormhole_received) = Cardinality(ReceivedWithdrawals)
  /\ \A req \in Requests :
       req.vaa \in wormhole_received
         => /\ WithdrawReceivedBy(req).err # "Ok"
            /\ WithdrawReceivedBy(req).ledger = Ledger

\* A message was applied (a withdrawal of a positive amount is recorded for
\* it) and the request that submits it again, with the host count that is
\* now expected, is rejected as a duplicate.
C12_Witness ==
  \E req \in Requests :
    /\ req.vaa \in wormhole_received
    /\ req.host_count = users[req.host].withdrawals_count + 1
    /\ req.vaa.amount > 0
    /\ \E id \in ReceivedWithdrawals : IsMessageOf(req.vaa, withdrawals[id])
    /\ withdraw_received_checks(Ledger, req.vaa, req.caller, req.host_count,
                                req.host, req.payable_id, req.mint,
                                req.amount) = "Ok"
    /\ WithdrawReceivedBy(req).err = "DuplicateMessage"

\* C13: withdraw_received succeeds only with the host count that is the
\* host's withdrawals_count + 1; a request with any other host count, a used
\* or a future one, is rejected and leaves the ledger as it was, so the host
\* count of a recorded cross-chain withdrawal is rejected from then on.
C13_HostCountIsNext ==
  /\ \A req \in Requests :
       LET r == WithdrawReceivedBy(req)
           expected == users[req.host].withdrawals_count + 1
       IN /\ r.err = "Ok" => req.host_count = expected
          /\ req.host_count # expected
               => r.err # "Ok" /\ r.ledger = Ledger
  /\ \A id \in ReceivedWithdrawals, req \in Requests :
       (/\ req.host = HostWallet(withdrawals[id])
        /\ req.host_count = withdrawals[id].host_count)
         => WithdrawReceivedBy(req).err # "Ok"

\* A cross-chain withdrawal with host count k is recorded; a request with a
\* message not yet received is rejected for its host count when it carries
\* k again, and when it carries k + 2.
C13_Witness ==
  \E id \in ReceivedWithdrawals :
    LET k == withdrawals[id].host_count
    IN \E used \in Requests, late \in Requests :
         /\ used.host = HostWallet(withdrawals[id])
         /\ used.host_count = k
         /\ used.vaa \notin wormhole_received
         /\ WithdrawReceivedBy(used).err = "WrongWithdrawalsHostCountProvided"
         /\ late.host = HostWallet(withdrawals[id])
         /\ late.host_count = k + 2
         /\ late.vaa \notin wormhole_received
         /\ WithdrawReceivedBy(late).err = "WrongWithdrawalsHostCountProvided"

\* C14: a message not received before whose action kind is not the
\* withdrawal action is rejected by withdraw_received with InvalidActionId
\* and leaves the ledger as it was.
C14_OtherActionRejected ==
  \A req \in Requests :
    (/\ req.vaa.action_id # ACTION_ID_WITHDRAW
     /\ req.vaa \notin wormhole_received)
      => /\ WithdrawReceivedBy(req).err = "InvalidActionId"
         /\ WithdrawReceivedBy(req).ledger = Ledger

\* C15: a withdraw, a close, a reopen or an update of the allowed tokens and
\* amounts whose signer is not the payable's host fails with NotYourPayable
\* and leaves the ledger, and so the payable, as it was.
C15_OnlyHostMutates ==
  \A p \in DOMAIN payables, signer \in Wallets :
    signer # payables[p].host
      => /\ \A mint \in Tokens, amount \in WithdrawAmounts :
              LET r == withdraw_handler(Ledger, p, signer, mint, amount)
              IN r.err = "NotYourPayable" /\ r.ledger = Ledger
         /\ \A is_closed \in BOOLEAN :
              LET r == update_payable_handler(Ledger, p, signer, is_closed)
              IN r.err = "NotYourPayable" /\ r.ledger = Ledger
         /\ \A list \in UpdateLists :
              LET r == update_payable_allowed_tokens_and_amounts_handler(
                         Ledger, p, signer, list)
              IN r.err = "NotYourPayable" /\ r.ledger = Ledger

\* An open payable of w1 with one allowed entry holds a balance: w2 is
\* refused the withdrawal, the close and the update that w1 is granted.
C15_Witness ==
  \E p \in DOMAIN payables :
    /\ payables[p].host = "w1"
    /\ ~payables[p].is_closed
    /\ Len(payables[p].allowed_tokens_and_amounts) = 1
    /\ BalanceOf(payables[p].balances, "tA") = 1
    /\ withdraw_handler(Ledger, p, "w2", "tA", 1).err = "NotYourPayable"
    /\ withdraw_handler(Ledger, p, "w1", "tA", 1).err = "Ok"
    /\ update_payable_handler(Ledger, p, "w2", TRUE).err = "NotYourPayable"
    /\ update_payable_handler(Ledger, p, "w1", TRUE).err = "Ok"
    /\ \E list \in UpdateLists :
         /\ list # payables[p].allowed_tokens_and_amounts
         /\ update_payable_allowed_tokens_and_amounts_handler(
              Ledger, p, "w2", list).err = "NotYourPayable"
         /\ update_payable_allowed_tokens_and_amounts_handler(
              Ledger, p, "w1", list).err = "Ok"

\* The ledger with a payable's is_closed flag set to a value.
WithClosed(L, payable_id, is_closed) ==
  [L EXCEPT !.payables[payable_id].is_closed = is_closed]

\* C16: for a closed payable and a token with balances[token] >= amount > 0,
\* a withdraw by the host succeeds, with the outcome it has on the same
\* payable when open, and a pay to the payable is rejected with
\* PayableIsClosed.
C16_ClosedPayableWithdraws ==
  \A c \in HostWithdrawals :
    LET payable == payables[c.payable_id]
        closed == WithdrawBy(c)
        open == withdraw_handler(WithClosed(Ledger, c.payable_id, FALSE),
                                 c.payable_id, payable.host, c.mint, c.amount)
    IN (/\ payable.is_closed
        /\ c.amount > 0
        /\ HasEntry(payable.balances, c.mint)
        /\ BalanceOf(payable.balances, c.mint) >= c.amount)
         => /\ closed.err = "Ok"
            /\ open.err = "Ok"
            /\ closed.net = open.net
            /\ closed.ledger = WithClosed(open.ledger, c.payable_id, TRUE)
            /\ \A sender \in LocalWallets, token \in Tokens,
                  amount \in Amounts :
                 pay(Ledger, c.payable_id, sender, token, amount, amount).err
                   = "PayableIsClosed"

\* The outcome of a handler's own run: the error it returns and the ledger
\* as the handler has written it when it returns, before its transaction
\* commits or aborts.  The checks of pay and of create_payable_handler all
\* precede their state changes, so their runs are the handlers themselves.
WithdrawRunBy(c) ==
  withdraw_handler_run(Ledger, c.payable_id, payables[c.payable_id].host,
                       c.mint, c.amount)

WithdrawReceivedRunBy(req) ==
  withdraw_received_handler_run(Ledger, req.vaa, req.caller, req.host_count,
                                req.host, req.payable_id, req.mint,
                                req.amount)

\* The request passes the account constraints, so that the handler runs.
IsHandled(req) ==
  withdraw_received_context(Ledger, req.vaa, req.host, req.payable_id) = "Ok"

\* A failed pay or payable creation leaves the ledger as it was.
FailedPayOrCreateWritesNothing ==
  /\ \A payable_id \in NamedPayables, sender \in LocalWallets,
        token \in Tokens, amount \in Amounts :
       \A funds \in FundsFor(amount) :
         LET r == pay(Ledger, payable_id, sender, token, amount, funds)
         IN r.err # "Ok" => r.ledger = Ledger
  /\ \A signer \in LocalHosts, list \in AllowedLists :
       \A remaining \in RemainingAccounts(list) :
         LET r == create_payable_handler(Ledger, signer, list, remaining)
         IN r.err # "Ok" => r.ledger = Ledger

\* C17: in pay, withdraw, withdraw_received and payable creation every
\* check comes before the first write, so a handler that returns an error
\* has written nothing, the replay-guard record of the message included.
\* withdraw_received_handler writes the record (withdraw.rs:148-150) before
\* the checks of withdraw.rs:152-192.
C17_ChecksBeforeWrites ==
  /\ FailedPayOrCreateWritesNothing
  /\ \A c \in HostWithdrawals :
       LET run == WithdrawRunBy(c)
       IN run.err # "Ok" => run.ledger = Ledger
  /\ \A req \in Requests :
       LET run == WithdrawReceivedRunBy(req)
       IN (IsHandled(req) /\ run.err # "Ok") => run.ledger = Ledger

\* Every sequence counter is 0.
C18_CountersStartAtZero ==
  /\ chain_stats.payables_count = 0
  /\ chain_stats.payments_count = 0
  /\ chain_stats.withdrawals_count = 0
  /\ \A w \in Wallets :
       /\ users[w].payables_count = 0
       /\ users[w].payments_count = 0
       /\ users[w].withdrawals_count = 0
  /\ DOMAIN payables = {}

\* In a step, at most one payable, payment or withdrawal is recorded, a
\* counter of a payable that is created is 0, and every counter grows by
\* the number of records of its kind and scope that the step adds: by 1 in
\* a successful operation of its kind, by 0 otherwise.
C18_CountersStep ==
  LET created == DOMAIN payables' \ DOMAIN payables
      paid == DOMAIN payable_payments' \ DOMAIN payable_payments
      withdrawn == DOMAIN withdrawals' \ DOMAIN withdrawals
  IN /\ DOMAIN payables \subseteq DOMAIN payables'
     /\ DOMAIN user_payments' \ DOMAIN user_payments = paid
     /\ Cardinality(created) + Cardinality(paid) + Cardinality(withdrawn) <= 1
     /\ chain_stats'.payables_count
          = chain_stats.payables_count + Cardinality(created)
     /\ chain_stats'.payments_count = chain_stats.payments_count + Cardinality(paid)
     /\ chain_stats'.withdrawals_count
          = chain_stats.withdrawals_count + Cardinality(withdrawn)
     /\ \A w \in Wallets :
          /\ users'[w].payables_count
               = users[w].payables_count
                   + Cardinality({p \in created : p[1] = w})
          /\ users'[w].payments_count
               = users[w].payments_count
                   + Cardinality({id \in paid : user_payments'[id].payer = w})
          /\ users'[w].withdrawals_count
               = users[w].withdrawals_count
                   + Cardinality({id \in withdrawn :
                                    HostWallet(withdrawals'[id]) = w})
     /\ \A p \in created :
          /\ payables'[p].payments_count = 0
          /\ payables'[p].withdrawals_count = 0
          /\ may_load(payable_chain_payments_count', p, 0) = 0
     /\ \A p \in DOMAIN payables :
          LET paid_to == {id \in paid : payable_payments'[id].payable_id = p}
              withdrawn_from ==
                {id \in withdrawn : withdrawals'[id].payable = p}
          IN /\ payables'[p].payments_count
                  = payables[p].payments_count + Cardinality(paid_to)
             /\ may_load(payable_chain_payments_count', p, 0)
                  = may_load(payable_chain_payments_count, p, 0) + Cardinality(paid_to)
             /\ payables'[p].withdrawals_count
                  = payables[p].withdrawals_count + Cardinality(withdrawn_from)

\* C18: every sequence counter (the chain's payables, payments and
\* withdrawals counts, each user's and each payable's payments and
\* withdrawals counts, each payable's per-chain payments count) starts at 0
\* and changes only by +1, in a successful operation of its own kind; it is
\* never decremented or reset, so it takes the values 1, 2, 3, ... with no
\* gaps.
C18_CountersCountByOne ==
  C18_CountersStartAtZero /\ [][C18_CountersStep]_vars

\* Two payables were created, two payments were made by one payer to one
\* payable, and a withdrawal was made.
C18_Witness ==
  /\ chain_stats.payables_count = 2
  /\ chain_stats.payments_count = 2
  /\ chain_stats.withdrawals_count = 1
  /\ \E w \in Wallets : users[w].payments_count = 2
  /\ \E p \in DOMAIN payables :
       /\ payables[p].payments_count = 2
       /\ may_load(payable_chain_payments_count, p, 0) = 2
       /\ payables[p].withdrawals_count = 1

\* C19: in every reachable state the balances of a payable hold at most one
\* entry per token, every amount is at least 0, and the entry of a token
\* exists exactly when the payable recorded a payment in that token
\* (a withdrawal adds and removes no entry).
C19_BalancesEntries ==
  \A p \in DOMAIN payables :
    LET balances == payables[p].balances
    IN /\ \A i, j \in 1 .. Len(balances) :
            balances[i].token = balances[j].token => i = j
       /\ \A i \in 1 .. Len(balances) : balances[i].amount >= 0
       /\ \A t \in Tokens :
            HasEntry(balances, t)
              <=> \E id \in PaymentsOf(p) :
                    payable_payments[id].details.token = t

\* A payable that was paid twice in one token has one entry for it, and
\* keeps the entry, with amount 0, after the withdrawal of the whole.
C19_Witness ==
  \E p \in DOMAIN payables :
    /\ Cardinality(PaymentsOf(p)) = 2
    /\ payables[p].withdrawals_count = 1
    /\ \E t \in Tokens : payables[p].balances = <<TAA(t, 0)>>

\* The payables counts of the chain and of the hosts.
PayablesCounts(L) ==
  <<L.chain_stats.payables_count,
    [w \in Wallets |-> L.users[w].payables_count]>>

\* A creation with more tokens and amounts than the maximum is rejected with
\* the max-capacity error and leaves the payables counts as they were.
RejectedForCapacity(r) ==
  /\ r.err = "MaxPayableTokensCapacityReached"
  /\ PayablesCounts(r.ledger) = PayablesCounts(Ledger)
  /\ r.ledger.payables = payables

\* C20: on every entry point that creates a payable (create_payable,
\* initialize_payable with a proper description, and the creation from a
\* remote message), a list of tokens and amounts longer than the configured
\* maximum is rejected with the max-capacity error, and the chain's and the
\* host's payables_count stay as they were.
C20_LongListRejected ==
  /\ \A signer \in LocalHosts, description \in Descriptions,
        list \in InitializeLists, allows_free_payments \in BOOLEAN :
       (/\ Len(list) > MAX_PAYABLES_TOKENS
        /\ trim(description) # << >>
        /\ Len(description) <= MAX_PAYABLES_DESCRIPTION_LENGTH)
         => RejectedForCapacity(
              initialize_payable_handler(Ledger, signer, description, list,
                                         allows_free_payments))
  /\ \A caller \in RemoteHosts, list \in RemoteAllowedLists :
       Len(list) > MAX_PAYABLES_TOKENS
         => RejectedForCapacity(
              initialize_payable_received_handler(Ledger, caller, list))
  /\ \A signer \in LocalHosts, list \in AllowedLists :
       \A remaining \in RemainingAccounts(list) :
         Len(list) > MAX_PAYABLES_TOKENS
           => RejectedForCapacity(
                create_payable_handler(Ledger, signer, list, remaining))

\* The list holds an entry with amount zero.
HasZeroAmount(list) == \E i \in 1 .. Len(list) : list[i].amount = 0

\* A creation is rejected and leaves the payables counts and the payables
\* as they were.
RejectedCreation(r) ==
  /\ r.err # "Ok"
  /\ PayablesCounts(r.ledger) = PayablesCounts(Ledger)
  /\ r.ledger.payables = payables

\* C21: a creation whose list holds an entry with amount zero, at any
\* position, is rejected and leaves the chain's and the host's
\* payables_count as they were; the error is ZeroAmountSpecified when the
\* request is in order otherwise (create_payable: the token details of
\* supported tokens; initialize_payable: a proper description, no more
\* entries than the maximum, no free payments).
C21_ZeroAmountRejected ==
  /\ \A signer \in LocalHosts, list \in AllowedLists :
       \A remaining \in RemainingAccounts(list) :
         LET r == create_payable_handler(Ledger, signer, list, remaining)
         IN HasZeroAmount(list)
              => /\ RejectedCreation(r)
                 /\ (/\ remaining = DetailsFor(list)
                     /\ \A i \in 1 .. Len(list) :
                          list[i].token \in SupportedTokens)
                      => r.err = "ZeroAmountSpecified"
  /\ \A signer \in LocalHosts, description \in Descriptions,
        list \in InitializeLists, allows_free_payments \in BOOLEAN :
       LET r == initialize_payable_handler(Ledger, signer, description, list,
                                           allows_free_payments)
       IN HasZeroAmount(list)
            => /\ RejectedCreation(r)
               /\ (/\ trim(description) # << >>
                   /\ Len(description) <= MAX_PAYABLES_DESCRIPTION_LENGTH
                   /\ Len(list) <= MAX_PAYABLES_TOKENS
                   /\ ~allows_free_payments)
                    => r.err = "ZeroAmountSpecified"

\* A payable exists, and creations with the zero amount in the first, the
\* second and the last entry of the list are rejected for it on
\* create_payable, with the first and the last on initialize_payable.
C21_Witness ==
  /\ chain_stats.payables_count = 1
  /\ users["w1"].payables_count = 1
  /\ \A list \in { <<TAA("tA", 0), TAA("tB", 2)>>,
                   <<TAA("tA", 1), TAA("tB", 0), TAA("tA", 2)>>,
                   <<TAA("tB", 2), TAA("tA", 0)>> } :
       create_payable_handler(Ledger, "w1", list, DetailsFor(list)).err
         = "ZeroAmountSpecified"
  /\ \A list \in { <<TAA("tA", 0), TAA("tB", 2)>>,
                   <<TAA("tB", 2), TAA("tA", 0)>> } :
       initialize_payable_handler(Ledger, "w1", <<" ", "a">>, list,
                                  FALSE).err = "ZeroAmountSpecified"

\* The result r of a creation by `creator` is a success that yields exactly
\* one new payable, fresh and owned by the creator, and counts it once on
\* the chain and once on the host; what the payable records are those two
\* new counts.  The payables of before are as they were.
CreatesFreshPayable(r, creator) ==
  LET new == DOMAIN r.ledger.payables \ DOMAIN payables
  IN /\ Cardinality(new) = 1
     /\ \A id \in DOMAIN payables : r.ledger.payables[id] = payables[id]
     /\ r.ledger.chain_stats.payables_count = chain_stats.payables_count + 1
     /\ r.ledger.users[creator].payables_count
          = users[creator].payables_count + 1
     /\ \A w \in Wallets \ {creator} :
          r.ledger.users[w].payables_count = users[w].payables_count
     /\ \A id \in new :
          LET payable == r.ledger.payables[id]
          IN /\ payable.payments_count = 0
             /\ payable.withdrawals_count = 0
             /\ payable.is_closed = FALSE
             /\ payable.balances = << >>
             /\ payable.host = creator
             /\ payable.chain_count = r.ledger.chain_stats.payables_count
             /\ payable.host_count = r.ledger.users[creator].payables_count

\* C22: every successful creation of a payable yields a payable with
\* payments_count 0, withdrawals_count 0, is_closed false, no balances and
\* the creator as host, adds exactly 1 to the chain's payables_count and 1
\* to the host's, and records the two new values as the payable's chain
\* count and host_count.
C22_CreationYieldsFreshPayable ==
  /\ \A signer \in LocalHosts, list \in AllowedLists :
       \A remaining \in RemainingAccounts(list) :
         LET r == create_payable_handler(Ledger, signer, list, remaining)
         IN r.err = "Ok" => CreatesFreshPayable(r, signer)
  /\ \A signer \in LocalHosts, description \in Descriptions,
        list \in InitializeLists, allows_free_payments \in BOOLEAN :
       LET r == initialize_payable_handler(Ledger, signer, description, list,
                                           allows_free_payments)
       IN r.err = "Ok" => CreatesFreshPayable(r, signer)
  /\ \A caller \in RemoteHosts, list \in RemoteAllowedLists :
       LET r == initialize_payable_received_handler(Ledger, caller, list)
       IN r.err = "Ok" => CreatesFreshPayable(r, caller)

(***************************************************************************)
(* The ledger late in the chain's life: counters that stand a step or two  *)
(* below the maximum of their width, or at it.  One payable of host w1     *)
(* takes any token and amount; the records of the payments and            *)
(* withdrawals behind the counters are left out of this ledger.            *)
(***************************************************************************)
NearMax == {U64_MAX - 2, U64_MAX - 1, U64_MAX}

LargeAmounts == {1, 2, U64_MAX - 1, U64_MAX}

LatePayable == <<"w1", 1>>

InitOverflow ==
  \E chain_payments \in NearMax, payer_payments \in NearMax,
     payable_payments_count \in NearMax, local_payments \in NearMax,
     chain_withdrawals \in NearMax, host_withdrawals \in NearMax,
     payable_withdrawals \in NearMax, balance \in {0, U64_MAX - 1} :
    /\ payer_payments <= chain_payments
    /\ local_payments <= payable_payments_count
    /\ payable_payments_count <= chain_payments
    /\ payable_withdrawals <= host_withdrawals
    /\ host_withdrawals <= chain_withdrawals
    /\ chain_stats = [payables_count |-> 1,
                      payments_count |-> chain_payments,
                      withdrawals_count |-> chain_withdrawals,
                      activities_count |-> 1]
    /\ users = [w \in Wallets |->
                  IF w = "w1"
                  THEN [payables_count |-> 1, payments_count |-> 0,
                        withdrawals_count |-> host_withdrawals,
                        activities_count |-> 1]
                  ELSE IF w = "w2"
                  THEN [InitUser EXCEPT !.payments_count = payer_payments]
                  ELSE InitUser]
    /\ payables =
         Put(<< >>, LatePayable,
             [chain_count |-> 1, host |-> "w1", host_count |-> 1,
              allowed_tokens_and_amounts |-> << >>,
              balances |-> IF balance = 0 THEN << >>
                           ELSE <<TAA("tA", balance)>>,
              payments_count |-> payable_payments_count,
              withdrawals_count |-> payable_withdrawals,
              activities_count |-> 1,
              is_closed |-> FALSE])
    /\ payable_chain_payments_count = Put(<< >>, LatePayable, local_payments)
    /\ user_payment_ids = [w \in Wallets |-> << >>]
    /\ payable_payment_ids = Put(<< >>, LatePayable, << >>)
    /\ user_payments = << >>
    /\ payable_payments = << >>
    /\ withdrawals = << >>
    /\ wormhole_received = {}
    /\ custody = [t \in Tokens |-> IF t = "tA" THEN balance ELSE 0]

PayNearMax ==
  \E sender \in LocalWallets, token \in SupportedTokens,
     amount \in LargeAmounts :
    \E funds \in FundsFor(amount) :
      Transaction(pay(Ledger, LatePayable, sender, token, amount, funds))

WithdrawNearMax ==
  \E mint \in SupportedTokens, amount \in WithdrawAmounts :
    Transaction(withdraw_handler(Ledger, LatePayable, "w1", mint, amount))

NextOverflow ==
  \/ PayNearMax
  \/ WithdrawNearMax

SpecOverflow == InitOverflow /\ [][NextOverflow]_vars

\* Every counter and every balance the ledger stores is a value of the
\* width.
StoredInWidth(L) ==
  LET InWidth(x) == x \in 0 .. U64_MAX
  IN /\ InWidth(L.chain_stats.payments_count)
     /\ InWidth(L.chain_stats.withdrawals_count)
     /\ \A w \in Wallets : /\ InWidth(L.users[w].payments_count)
                           /\ InWidth(L.users[w].withdrawals_count)
     /\ \A p \in DOMAIN L.payables :
          /\ InWidth(L.payables[p].payments_count)
          /\ InWidth(L.payables[p].withdrawals_count)
          /\ InWidth(L.payable_chain_payments_count[p])
          /\ \A i \in 1 .. Len(L.payables[p].balances) :
               InWidth(L.payables[p].balances[i].amount)

\* The pay would push the token's balance or a payment counter past the
\* maximum.
PayPushesPastMax(payable_id, sender, token, amount) ==
  \/ BalanceOf(payables[payable_id].balances, token) + amount > U64_MAX
  \/ chain_stats.payments_count + 1 > U64_MAX
  \/ users[sender].payments_count + 1 > U64_MAX
  \/ payables[payable_id].payments_count + 1 > U64_MAX
  \/ payable_chain_payments_count[payable_id] + 1 > U64_MAX

\* The withdrawal would push a withdrawal counter past the maximum.
WithdrawPushesPastMax(payable_id, host) ==
  \/ chain_stats.withdrawals_count + 1 > U64_MAX
  \/ payables[payable_id].withdrawals_count + 1 > U64_MAX
  \/ users[host].withdrawals_count + 1 > U64_MAX

\* C23: arithmetic overflow is fatal and never wraps: a pay that would push
\* balances[token] or a payment counter past the maximum of the width, and
\* a withdraw that would push a withdrawal counter past it, fails and
\* leaves the ledger as it was; every value the ledger stores, and every
\* value a successful pay or withdraw leaves, is a value of the width.
C23_OverflowAborts ==
  /\ StoredInWidth(Ledger)
  /\ \A sender \in LocalWallets, token \in SupportedTokens,
        amount \in LargeAmounts :
       \A funds \in FundsFor(amount) :
         LET r == pay(Ledger, LatePayable, sender, token, amount, funds)
         IN /\ PayPushesPastMax(LatePayable, sender, token, amount)
                 => /\ r.err # "Ok"
                    /\ r.ledger = Ledger
                    /\ pay_checks(Ledger, LatePayable, token, amount,
                                  funds) = "Ok" => r.err = "Panic"
            /\ StoredInWidth(r.ledger)
  /\ \A mint \in SupportedTokens, amount \in WithdrawAmounts :
       LET r == withdraw_handler(Ledger, LatePayable, "w1", mint, amount)
       IN /\ WithdrawPushesPastMax(LatePayable, "w1")
               => r.err # "Ok" /\ r.ledger = Ledger
          /\ StoredInWidth(r.ledger)

\* After a payment: the balance of tA is the maximum less one, so that a
\* pay of 2 would push only the balance past the maximum and a pay of 1
\* fits; the balance of tB is at the maximum, and a pay of 1 with no
\* allowance behind it panics before the transfer is tried; the payable's
\* withdrawals count is at the maximum, so that a withdraw within the
\* balance would push it past.
C23_Witness ==
  /\ payable_payment_ids[LatePayable] # << >>
  /\ BalanceOf(payables[LatePayable].balances, "tA") = U64_MAX - 1
  /\ ~PayPushesPastMax(LatePayable, "w2", "tA", 1)
  /\ PayPushesPastMax(LatePayable, "w2", "tA", 2)
  /\ pay(Ledger, LatePayable, "w2", "tA", 2, 2).err = "Panic"
  /\ BalanceOf(payables[LatePayable].balances, "tB") = U64_MAX
  /\ pay(Ledger, LatePayable, "w1", "tB", 1, 0).err = "Panic"
  /\ pay(Ledger, LatePayable, "w2", "tA", 1, 1).err = "Ok"
  /\ payables[LatePayable].withdrawals_count = U64_MAX
  /\ withdraw_handler(Ledger, LatePayable, "w1", "tA", 1).err = "Panic"

\* Requests that deviate from a well-formed one in up to two ways, among
\* the message's replay, its action kind, its caller and its payable id.
MessageDeviations ==
  {"zero_caller", "other_caller", "pay_action", "other_payable", "replayed"}

TwiceDeviated ==
  {Deviate(Deviate(req, d1), d2) :
     req \in {Request(p, t, a) : p \in DOMAIN payables,
                                 t \in SupportedTokens, a \in Amounts},
     d1 \in MessageDeviations, d2 \in MessageDeviations}

\* The error of the earliest failing check of a request in the order
\* replay guard, action kind, caller identity, payable id; "Ok" when the
\* request passes the four.
EarliestMessageError(req) ==
  IF req.vaa \in wormhole_received THEN "DuplicateMessage"
  ELSE IF req.vaa.action_id # ACTION_ID_WITHDRAW THEN "InvalidActionId"
  ELSE IF ~(req.vaa.caller = req.caller /\ req.caller # ZeroAddress)
    THEN "InvalidCallerAddress"
  ELSE IF ~(req.host = req.caller
            /\ ChainOf(req.host) = req.vaa.emitter_chain)
    THEN "UnauthorizedCallerAddress"
  ELSE IF req.payable_id # req.vaa.payable_id THEN "NotMatchingPayableId"
  ELSE "Ok"

\* C24: withdraw_received evaluates its message checks in the order replay
\* guard, action kind (InvalidActionId), caller identity
\* (InvalidCallerAddress / UnauthorizedCallerAddress), payable id
\* (NotMatchingPayableId): a request of a payable's host account with the
\* host's next count that fails one or several of these checks is rejected
\* with the error of the earliest failing one.
C24_MessageChecksInOrder ==
  \A req \in Requests \cup TwiceDeviated :
    (/\ req.payable_id \in DOMAIN payables
     /\ is_host(Ledger, req.payable_id, req.host)
     /\ req.host_count = users[req.host].withdrawals_count + 1
     /\ EarliestMessageError(req) # "Ok")
      => WithdrawReceivedBy(req).err = EarliestMessageError(req)

\* The sum of the balances the payables in S record for a token.
RECURSIVE SumOfBalances(_, _)
SumOfBalances(S, token) ==
  IF S = {} THEN 0
  ELSE LET p == CHOOSE x \in S : TRUE
       IN BalanceOf(payables[p].balances, token)
            + SumOfBalances(S \ {p}, token)

\* C25: custody solvency: after any sequence of create-payable, pay,
\* withdraw and withdraw_received operations, the tokens held in custody
\* are, for every token, at least the sum of the balances all payables
\* record for that token.
C25_CustodyCoversBalances ==
  \A token \in Tokens :
    custody[token] >= SumOfBalances(DOMAIN payables, token)

\* The sum of f over the set S.
RECURSIVE SumOver(_, _)
SumOver(f, S) ==
  IF S = {} THEN 0
  ELSE LET x == CHOOSE y \in S : TRUE IN f[x] + SumOver(f, S \ {x})

\* C26: cross-scope counter agreement: in every state reached by local
\* payments the chain's payments_count equals the sum of the users'
\* payments_count and the sum of the payables' payments_count, each
\* payable's local-chain payments count equals its payments_count, and
\* each user's and each payable's list of payment ids is as long as its
\* payments_count.
C26_PaymentCountersAgree ==
  /\ chain_stats.payments_count
       = SumOver([w \in Wallets |-> users[w].payments_count], Wallets)
  /\ chain_stats.payments_count
       = SumOver([p \in DOMAIN payables |-> payables[p].payments_count],
                 DOMAIN payables)
  /\ \A p \in DOMAIN payables :
       /\ may_load(payable_chain_payments_count, p, 0) = payables[p].payments_count
       /\ Len(may_load(payable_payment_ids, p, << >>)) = payables[p].payments_count
  /\ \A w \in Wallets : Len(user_payment_ids[w]) = users[w].payments_count

\* Two payers have paid one payment each, to two payables, and a
\* withdrawal has followed.
C26_Witness ==
  /\ chain_stats.payments_count = 2
  /\ users["w1"].payments_count = 1
  /\ users["w2"].payments_count = 1
  /\ \A p \in DOMAIN payables : payables[p].payments_count = 1
  /\ Cardinality(DOMAIN payables) = 2
  /\ chain_stats.withdrawals_count = 1

\* C27: a withdrawal that passes validation never aborts on arithmetic: for
\* every amount of the width with 0 < amount <= balances[token], withdraw
\* by the host succeeds (amount * 98 / 100 does not overflow).  The
\* withdrawal counters have room for one more, and the tokens are in
\* custody.
C27_ValidWithdrawalSucceeds ==
  \A mint \in SupportedTokens, amount \in WithdrawAmounts \cup LargeAmounts :
    (/\ 0 < amount
     /\ amount <= BalanceOf(payables[LatePayable].balances, mint)
     /\ HasEntry(payables[LatePayable].balances, mint)
     /\ ~WithdrawPushesPastMax(LatePayable, "w1")
     /\ custody[mint] >= amount)
      => withdraw_handler(Ledger, LatePayable, "w1", mint, amount).err = "Ok"

\* The counts a query of a payment id is asked with.
QueryCounts == 0 .. MaxPayments + 1

\* The ids of the payments recorded as the count-th of the wallet, and as
\* the count-th of the payable.
UserPaymentAt(wallet, count) ==
  {id \in DOMAIN user_payments :
     /\ user_payments[id].payer = wallet
     /\ user_payments[id].payer_count = count}

PayablePaymentAt(payable_id, count) ==
  {id \in DOMAIN payable_payments :
     /\ payable_payments[id].payable_id = payable_id
     /\ payable_payments[id].payable_count = count}

\* The answer of a query for `count` of `payments_count`: the id of the
\* count-th payment when 1 <= count <= payments_count, the error for every
\* other count.
AnswersCount(answer, count, payments_count, ids, error) ==
  IF 1 <= count /\ count <= payments_count
  THEN /\ answer.err = "Ok"
       /\ \E id \in ids : answer.id = to_hex(id)
       /\ Cardinality(ids) = 1
  ELSE answer.err = error

\* C28: payable_payment_id(payable, count) and user_payment_id(wallet,
\* count) return the id appended by the count-th successful payment of
\* that payable or user when 1 <= count <= payments_count, and an
\* invalid-count error, never a crash or a wrong id, for every other
\* count, count 0 and a wallet that has never paid included.
C28_PaymentIdQueries ==
  /\ \A wallet \in Wallets, count \in QueryCounts :
       AnswersCount(user_payment_id(Ledger, wallet, count), count,
                    users[wallet].payments_count,
                    UserPaymentAt(wallet, count), "InvalidUserPaymentCount")
  /\ \A payable_id \in DOMAIN payables, count \in QueryCounts :
       AnswersCount(payable_payment_id(Ledger, payable_id, count), count,
                    payables[payable_id].payments_count,
                    PayablePaymentAt(payable_id, count),
                    "InvalidPayablePaymentCount")

====
